---------------------------- MODULE Spec2Model ----------------------------
(***************************************************************************)
(* Paillier worker (paillier-worker.ts), the Node variant (paillier.ts)    *)
(* and the key serialization helpers (usePaillierKeygen.ts).               *)
(*                                                                         *)
(* BigInt values are modelled as TLA+ integers.  Every draw from           *)
(* crypto.getRandomValues / crypto.randomBytes is a nondeterministic       *)
(* choice over all byte values.  A function that can throw returns a       *)
(* record [ok, val, err].                                                  *)
(***************************************************************************)
EXTENDS Integers, Sequences, FiniteSets, TLC

VARIABLES
    \* ---- primality machine: isProbPrime / isProbablePrime / generatePrime
    ppc,       \* "idle" | "rounds" | "done"
    pvariant,  \* "worker" (paillier-worker.ts) | "lib" (paillier.ts)
    pbits,     \* bits argument of generatePrime, 0 for a direct isProbPrime call
    pdraw,     \* value returned by the last randomBigInt call of generatePrime
    pn,        \* the number under test
    pround,    \* loop index i of the Miller-Rabin loop
    pres,      \* "none" | "true" | "false": what isProbPrime returned
    pwit,      \* the witness a of the round isProbPrime returned from, else 0
    pwitOk,    \* history: every witness drawn so far was in [2, n-2]
    pliars     \* history: every witness drawn so far has a^(n-1) = 1 (mod n)

VARIABLES
    \* ---- one client session with the worker (App.tsx handleGen)
    sphase,    \* "start" | "hung" | "keyed" | "enc1" | "enc2" | "homo" | "dec1"
               \* | "dech"
    kp,        \* the keypair the client holds, NoKey before generation
    kbits,     \* the bits that keypair was requested with
    m1, c1,    \* first plaintext and its ciphertext
    m2, c2,    \* second plaintext and its ciphertext
    hop, hk,   \* homomorphic operation applied ("add" | "scalarMul") and scalar k
    hc,        \* its resulting ciphertext
    dres,      \* the plaintext the last decrypt returned
    req,       \* op of the last request ("" = no op field), "lib.encrypt" for
               \* a direct call of paillier.ts encrypt
    reqArg,    \* the bits (generate), m (encrypt) or k (scalarMul) parameter of
               \* the last request
    rdrawn,    \* the blinding value the last encrypt drew, 0 when it drew none
    posted,    \* the messages the handler posted for the last request
    thrown     \* error thrown by the last direct library call, "" if none

VARIABLES
    \* ---- one call of paillier.ts generateKeypair
    lphase,    \* "start" | "keyed"
    lbits,     \* the keyBits argument
    lkey       \* the keypair returned (p and q kept for reference)

VARIABLES
    \* ---- calls of toBigInt and of the key serialization helpers
    cop,       \* the last call: "none" | "toBigInt" | "serPub" | "deserPub" |
               \* "serPriv" | "deserPriv" | "toBigIntSer"
    cvariant,  \* "hook" (usePaillierKeygen.ts) | "lib" (paillier.ts)
    cin,       \* the value or key the calls started from
    cser,      \* the serialized key
    cout       \* what the last call returned or threw

VARIABLES
    \* ---- one call of modInv
    iop,       \* "none" | "modInv"
    ivariant,  \* "worker" (paillier-worker.ts) | "lib" (paillier.ts)
    ia, im,    \* the arguments a and m
    iout       \* what the call returned or threw

VARIABLES
    \* ---- concurrent calls of generatePaillierKey / callPaillierWorker
    calls,     \* per call: the function called, its worker, its promise
    workers,   \* the Worker objects created so far, in order of creation
    channel    \* messages posted by workers and not yet delivered

primeVars == <<ppc, pvariant, pbits, pdraw, pn, pround, pres, pwit, pwitOk, pliars>>
sessVars == <<sphase, kp, kbits, m1, c1, m2, c2, hop, hk, hc, dres, req, reqArg, rdrawn,
              posted, thrown>>

libVars == <<lphase, lbits, lkey>>

convVars == <<cop, cvariant, cin, cser, cout>>

invVars == <<iop, ivariant, ia, im, iout>>

callVars == <<calls, workers, channel>>

vars == <<primeVars, sessVars, libVars, convVars, invVars, callVars>>

(***************************************************************************)
(* Bounds of the model.                                                    *)
(***************************************************************************)
MaxCandidate == 30      \* isProbPrime is called directly on 0..MaxCandidate
MaxPrimeBits == 3       \* generatePrime is called with 2..MaxPrimeBits bits

(***************************************************************************)
(* BigInt arithmetic.                                                      *)
(***************************************************************************)
RECURSIVE Pow2(_)
Pow2(k) == IF k <= 0 THEN 1 ELSE 2 * Pow2(k - 1)

\* n.toString(2).length, 0 for 0n
RECURSIVE bitLength(_)
bitLength(n) == IF n = 0 THEN 0 ELSE 1 + bitLength(n \div 2)

\* BigInt division truncates toward zero
TruncDiv(a, b) == IF a >= 0 THEN a \div b ELSE -((-a) \div b)

\* (a * b) % m on BigInts, a, b >= 0: exact, evaluated in pieces so that no
\* intermediate product leaves the range of the checker's integers
RECURSIVE MulMod(_, _, _)
MulMod(a, b, m) ==
    IF a < 46341 /\ b < 46341 THEN (a * b) % m
    ELSE IF b < 256 THEN ((a % m) * b) % m
    ELSE (MulMod(a, b \div 256, m) * 256 + (a % m) * (b % 256)) % m

\* the while loop of modPow
RECURSIVE modPowLoop(_, _, _, _)
modPowLoop(result, base, exp, mod) ==
    IF exp > 0
    THEN modPowLoop(IF exp % 2 = 1 THEN MulMod(result, base, mod) ELSE result,
                    MulMod(base, base, mod), exp \div 2, mod)
    ELSE result

modPow(base, exp, mod) == modPowLoop(1, base % mod, exp, mod)

RECURSIVE gcd(_, _)
gcd(a, b) == IF b = 0 THEN a ELSE gcd(b, a % b)

lcm(a, b) == (a * b) \div gcd(a, b)

L(u, n) == TruncDiv(u - 1, n)

\* the outcome of a call that can throw
Ok(v) == [ok |-> TRUE, val |-> v, err |-> ""]
Throw(e) == [ok |-> FALSE, val |-> 0, err |-> e]

\* worker modInv: the while (a > 1n) loop; a / m with m = 0n throws
\* RangeError("Division by zero")
RECURSIVE modInvLoop(_, _, _, _)
modInvLoop(a, m, x0, x1) ==
    IF a > 1
    THEN IF m = 0 THEN Throw("Division by zero")
         ELSE modInvLoop(m, a % m, x1 - TruncDiv(a, m) * x0, x0)
    ELSE Ok(x1)

modInv(a, m) ==
    LET r == modInvLoop(a, m, 0, 1)
    IN  IF r.ok /\ r.val < 0 THEN Ok(r.val + m) ELSE r


(***************************************************************************)
(* Strings and conversions.  A string is a sequence of one-character       *)
(* strings; a message value is tagged with its JavaScript type.            *)
(***************************************************************************)
HexDigits == <<"0", "1", "2", "3", "4", "5", "6", "7", "8", "9",
               "a", "b", "c", "d", "e", "f">>

\* the value of a digit character, 16 for any other character
DigitVal(ch) ==
    IF \E i \in 1 .. 16 : HexDigits[i] = ch
    THEN (CHOOSE i \in 1 .. 16 : HexDigits[i] = ch) - 1
    ELSE 16

\* BigInt.prototype.toString(16)
RECURSIVE toString16(_)
toString16(n) ==
    IF n < 0 THEN <<"-">> \o toString16(-n)
    ELSE IF n < 16 THEN <<HexDigits[n + 1]>>
    ELSE toString16(n \div 16) \o <<HexDigits[(n % 16) + 1]>>

AllDigits(s, base) == \A i \in 1 .. Len(s) : DigitVal(s[i]) < base

RECURSIVE DigitsValue(_, _)
DigitsValue(s, base) ==
    IF s = <<>> THEN 0
    ELSE DigitsValue(SubSeq(s, 1, Len(s) - 1), base) * base + DigitVal(s[Len(s)])

Rest(s, k) == SubSeq(s, k + 1, Len(s))

startsWith0x(s) == Len(s) >= 2 /\ s[1] = "0" /\ s[2] = "x"

\* BigInt(string): the StringToBigInt grammar on the characters modelled (no
\* white space): "" is 0n, 0x / 0o / 0b literals are unsigned, a decimal
\* literal may carry a sign, anything else is a SyntaxError
StringToBigInt(s) ==
    LET prefixed(c) == Len(s) >= 2 /\ s[1] = "0" /\ s[2] = c
        literal(base) ==
            IF Len(s) > 2 /\ AllDigits(Rest(s, 2), base)
            THEN Ok(DigitsValue(Rest(s, 2), base))
            ELSE Throw("SyntaxError")
    IN  IF s = <<>> THEN Ok(0)
        ELSE IF prefixed("x") THEN literal(16)
        ELSE IF prefixed("o") THEN literal(8)
        ELSE IF prefixed("b") THEN literal(2)
        ELSE IF s[1] \in {"-", "+"}
             THEN IF Len(s) > 1 /\ AllDigits(Rest(s, 1), 10)
                  THEN Ok((IF s[1] = "-" THEN -1 ELSE 1) * DigitsValue(Rest(s, 1), 10))
                  ELSE Throw("SyntaxError")
        ELSE IF AllDigits(s, 10) THEN Ok(DigitsValue(s, 10))
        ELSE Throw("SyntaxError")

\* tagged message values
BigIntV(v) == [t |-> "bigint", v |-> v, s |-> <<>>]
NumberV(v) == [t |-> "number", v |-> v, s |-> <<>>]
\* a number that is not an integer (1.5, NaN)
FractionV == [t |-> "fraction", v |-> 0, s |-> <<>>]
StringV(s) == [t |-> "string", v |-> 0, s |-> s]
\* undefined, null, a boolean, an object
OtherV == [t |-> "other", v |-> 0, s |-> <<>>]

\* mutant: the hexadecimal fallback is left out
toBigInt_NoFallback(x) ==
    IF x.t \in {"bigint", "number"} THEN Ok(x.v)
    ELSE IF x.t = "fraction" THEN Throw("RangeError")
    ELSE IF x.t = "string" THEN StringToBigInt(x.s)
    ELSE Throw("Cannot convert to BigInt")

toBigInt(x) ==
    IF x.t = "bigint" THEN Ok(x.v)
    ELSE IF x.t = "number" THEN Ok(x.v)
    ELSE IF x.t = "fraction" THEN Throw("RangeError")
    ELSE IF x.t = "string"
         THEN LET direct == StringToBigInt(x.s)
              IN  IF direct.ok THEN direct
                  ELSE StringToBigInt(<<"0", "x">> \o x.s)
    ELSE Throw("Cannot convert to BigInt")

(***************************************************************************)
(* Random source.                                                          *)
(***************************************************************************)
\* the values a Uint8Array / Buffer of `bytes` random bytes can hold, read as
\* one big-endian number
RandomBytes(bytes) == 0 .. (Pow2(8 * bytes) - 1)

CeilDiv8(bits) == (bits + 7) \div 8

\* n | (1 << shift)
SetBit(n, shift) ==
    IF (n \div Pow2(shift)) % 2 = 1 THEN n ELSE n + Pow2(shift)

\* worker randomBigInt(bits) when the random bytes hold `raw`
randomBigInt(bits, raw) == SetBit(raw, bits - 1)

\* paillier.ts randomBigInt(bitLength) when the buffer holds `raw`: the bit
\* set in buf[0] is bit 7 when bitLength % 8 = 0, else bit (bitLength % 8)-1
libRandomBigInt(bitLen, raw) ==
    LET byteLength == CeilDiv8(bitLen)
        topBits    == bitLen % 8
    IN  IF topBits = 0
        THEN SetBit(raw, 8 * (byteLength - 1) + 7)
        ELSE SetBit(raw, 8 * (byteLength - 1) + (topBits - 1))

\* every value randomBigIntBelow(max) can return
randomBigIntBelow(max) ==
    IF max <= 0 THEN {0}
    ELSE LET bits == bitLength(max)
         IN  {x \in 0 .. (Pow2(bits) - 1) : x <= max}

\* every value randomBetween(min, max) can return (max >= min)
randomBetween(min, max) == {min + r : r \in randomBigIntBelow(max - min)}

(***************************************************************************)
(* Miller-Rabin.                                                           *)
(***************************************************************************)
K == 16

\* n - 1 = d * 2^r with d odd: the loop  while (!(d & 1n)) { d >>= 1n; r++ }
RECURSIVE OddPart(_)
OddPart(d) == IF d % 2 = 0 THEN OddPart(d \div 2) ELSE d

RECURSIVE TwoPart(_)
TwoPart(d) == IF d % 2 = 0 THEN 1 + TwoPart(d \div 2) ELSE 0

\* worker: for (j = 0n; j < r - 1n; j++) { x = modPow(x, 2n, n); ... }
\* TRUE when x = n - 1 is met (continue loop), FALSE when the loop runs out
RECURSIVE SquareLoop(_, _, _, _)
SquareLoop(x, j, r, n) ==
    IF j < r - 1
    THEN LET x2 == modPow(x, 2, n)
         IN  IF x2 = n - 1 THEN TRUE ELSE SquareLoop(x2, j + 1, r, n)
    ELSE FALSE

\* mutant: the squaring loop is left out
MillerRabinRound_NoSquaring(n, a) ==
    LET x == modPow(a, OddPart(n - 1), n)
    IN  x = 1 \/ x = n - 1

\* one iteration of the witness loop of the worker's isProbPrime with base a:
\* TRUE = the round passes, FALSE = return false
MillerRabinRound(n, a) ==
    LET d == OddPart(n - 1)
        r == TwoPart(n - 1)
        x == modPow(a, d, n)
    IN  IF x = 1 \/ x = n - 1 THEN TRUE ELSE SquareLoop(x, 0, r, n)

\* paillier.ts: for (r = 1n; r < s; r++) { x = (x * x) % n; ... }
RECURSIVE libSquareLoop(_, _, _, _)
libSquareLoop(x, r, s, n) ==
    IF r < s
    THEN LET x2 == MulMod(x, x, n)
         IN  IF x2 = n - 1 THEN TRUE ELSE libSquareLoop(x2, r + 1, s, n)
    ELSE FALSE

libMillerRabinRound(n, a) ==
    LET d == OddPart(n - 1)
        s == TwoPart(n - 1)
        x == modPow(a, d, n)
    IN  IF x = 1 \/ x = n - 1 THEN TRUE ELSE libSquareLoop(x, 1, s, n)

\* the returns before the witness loop: "none" when the loop is entered
ShortCircuit(n) ==
    IF n < 2 THEN "false"
    ELSE IF n = 2 \/ n = 3 THEN "true"
    ELSE IF n % 2 = 0 THEN "false"
    ELSE "none"

libShortCircuit(n) ==
    IF n = 2 \/ n = 3 THEN "true"
    ELSE IF n < 2 \/ n % 2 = 0 THEN "false"
    ELSE "none"

\* the bases one round can draw
Witnesses(variant, n) ==
    IF variant = "worker"
    THEN randomBetween(2, n - 2)
    ELSE {2 + (libRandomBigInt(bitLength(n), raw) % (n - 4)) :
              raw \in RandomBytes(CeilDiv8(bitLength(n)))}

RoundPasses(variant, n, a) ==
    IF variant = "worker" THEN MillerRabinRound(n, a) ELSE libMillerRabinRound(n, a)

(***************************************************************************)
(* Number theory used to state the properties (not part of the program).   *)
(***************************************************************************)
RECURSIVE NoDivisorFrom(_, _)
NoDivisorFrom(n, d) == d * d > n \/ (n % d # 0 /\ NoDivisorFrom(n, d + 1))

IsPrime(n) == n >= 2 /\ NoDivisorFrom(n, 2)

RECURSIVE ExpMod(_, _, _)
ExpMod(a, e, n) ==
    IF e = 0 THEN 1 % n
    ELSE IF e % 2 = 0
         THEN LET h == ExpMod(a, e \div 2, n) IN MulMod(h, h, n)
         ELSE MulMod(a % n, ExpMod(a, e - 1, n), n)

FermatLiar(n, a) == ExpMod(a, n - 1, n) = 1

KnownPrimes == {2, 3, 97, 7919}
KnownComposites == {4, 9, 15, 561}
TestCandidates == (0 .. MaxCandidate) \cup KnownPrimes \cup KnownComposites
\* paillier.ts draws a witness from 256^bytes buffers: its test is driven on
\* the candidates of one byte
libTestCandidates == {n \in TestCandidates : bitLength(n) <= 8}

(***************************************************************************)
(* The primality machine.                                                  *)
(***************************************************************************)
InitPrime ==
    /\ ppc = "idle"
    /\ pvariant = "worker"
    /\ pbits = 0
    /\ pdraw = 0
    /\ pn = 0
    /\ pround = 0
    /\ pres = "none"
    /\ pwit = 0
    /\ pwitOk = TRUE
    /\ pliars = TRUE

\* entry of isProbPrime(n) / isProbablePrime(n): the short circuits
EnterTest(variant, n) ==
    LET sc == IF variant = "worker" THEN ShortCircuit(n) ELSE libShortCircuit(n)
    IN  /\ pvariant' = variant
        /\ pn' = n
        /\ pround' = 0
        /\ pres' = sc
        /\ ppc' = IF sc = "none" THEN "rounds" ELSE "done"
        /\ pwit' = 0
        /\ pwitOk' = TRUE
        /\ pliars' = TRUE

\* a direct call isProbPrime(n)
CallIsProbPrime ==
    /\ ppc = "idle"
    /\ \/ \E n \in TestCandidates : EnterTest("worker", n)
       \/ \E n \in libTestCandidates : EnterTest("lib", n)
    /\ UNCHANGED <<pbits, pdraw>>
    /\ UNCHANGED <<sessVars, libVars, convVars, invVars, callVars>>

\* one iteration of the witness loop, and the return it leads to.  When
\* isProbPrime returns false to generatePrime its locals (i, a) are gone.
WitnessRound ==
    /\ ppc = "rounds"
    /\ \E a \in Witnesses(pvariant, pn) :
          LET pass == RoundPasses(pvariant, pn, a)
              popped == ~pass /\ pbits > 0
          IN  /\ pround' = IF popped THEN 0 ELSE pround + 1
              /\ pwit' = IF pass /\ pround + 1 < K THEN 0
                         ELSE IF popped THEN 0 ELSE a
              /\ pwitOk' = (pwitOk /\ 2 <= a /\ a <= pn - 2)
              /\ pliars' = IF popped THEN TRUE ELSE (pliars /\ FermatLiar(pn, a))
              /\ pres' = IF ~pass THEN "false"
                         ELSE IF pround + 1 = K THEN "true" ELSE "none"
              /\ ppc' = IF pass /\ pround + 1 < K THEN "rounds" ELSE "done"
    /\ UNCHANGED <<pvariant, pbits, pdraw, pn>>
    /\ UNCHANGED <<sessVars, libVars, convVars, invVars, callVars>>

\* one iteration of generatePrime(bits): draw, force odd, enter isProbPrime
DrawCandidate(bits) ==
    \E raw \in RandomBytes(CeilDiv8(bits)) :
        LET p == randomBigInt(bits, raw)
        IN  /\ pdraw' = p
            /\ EnterTest("worker", IF p % 2 = 0 THEN p + 1 ELSE p)

GeneratePrime ==
    /\ ppc = "idle"
    /\ \E bits \in 2 .. MaxPrimeBits :
          /\ pbits' = bits
          /\ DrawCandidate(bits)
    /\ UNCHANGED <<sessVars, libVars, convVars, invVars, callVars>>

\* isProbPrime(p) was false: the while (true) loop draws again
GeneratePrimeRetry ==
    /\ ppc = "done" /\ pbits > 0 /\ pres = "false"
    /\ DrawCandidate(pbits)
    /\ UNCHANGED pbits
    /\ UNCHANGED <<sessVars, libVars, convVars, invVars, callVars>>

NextPrime ==
    \/ CallIsProbPrime
    \/ WitnessRound
    \/ GeneratePrime
    \/ GeneratePrimeRetry

\* generatePrime(pbits) has returned pn
GeneratePrimeReturned == ppc = "done" /\ pbits > 0 /\ pres = "true"
\* isProbPrime(pn) has returned
IsProbPrimeReturned == ppc = "done"


(***************************************************************************)
(* Key generation, encryption and decryption of the worker.                *)
(***************************************************************************)
MaxBits == 7       \* generate is requested with 2..MaxBits bits
MaxBlind == 2      \* blinding values r are drawn from 1..MaxBlind
MaxMsg == 3        \* second plaintexts lie within MaxMsg of either end of [0, n)
MaxScalar == 3     \* scalars k are 0..MaxScalar, n and n + 1

NoKey == [n |-> 0, g |-> 0, n2 |-> 0, lambda |-> 0, mu |-> 0, p |-> 0, q |-> 0]

\* isProbPrime(n) can return true: the short circuit says so, or some base
\* passes a round (each of the K rounds draws independently and may draw it)
isProbPrimeMayAccept(n) ==
    \/ ShortCircuit(n) = "true"
    \/ /\ ShortCircuit(n) = "none"
       /\ \E a \in randomBetween(2, n - 2) : MillerRabinRound(n, a)

\* every value generatePrime(bits) can return
generatePrime(bits) ==
    LET odd(p) == IF p % 2 = 0 THEN p + 1 ELSE p
    IN  {c \in {odd(randomBigInt(bits, raw)) : raw \in RandomBytes(CeilDiv8(bits))} :
            isProbPrimeMayAccept(c)}

\* generatePaillier after its while loop has chosen p and q
keyFromPrimes(p, q) ==
    LET n  == p * q
        n2 == n * n
        lambda == lcm(p - 1, q - 1)
        g  == n + 1
        gl == modPow(g, lambda, n2)
        mu == modInv(L(gl, n), n)
    IN  IF mu.ok
        THEN [ok |-> TRUE, err |-> "",
              key |-> [n |-> n, g |-> g, n2 |-> n2, lambda |-> lambda,
                       mu |-> mu.val, p |-> p, q |-> q]]
        ELSE [ok |-> FALSE, err |-> mu.err, key |-> NoKey]

\* every outcome of generatePaillier(bits) that returns or throws; when no
\* pair passes the loop the call never returns and the set is empty
generatePaillier(bits) ==
    LET ps == generatePrime(bits \div 2)
        qs == generatePrime((bits + 1) \div 2)
    IN  {keyFromPrimes(pq[1], pq[2]) :
            pq \in {x \in ps \X qs : x[1] # x[2] /\ bitLength(x[1] * x[2]) = bits}}

\* encrypt: the range check; 
\* mutant: m = n is let through
messageOutOfRange_OffByOne(n, mm) == mm < 0 \/ mm > n

messageOutOfRange(n, mm) == mm < 0 \/ mm >= n

\* encrypt: the values r the do-while loop can end with, within the bound
blindings(n) ==
    {r \in {x + 1 : x \in randomBigIntBelow(n - 1)} : gcd(r, n) = 1 /\ r <= MaxBlind}

\* paillier.ts encrypt: r = bytes % n, 0 replaced by 1
libBlindings(n) ==
    {r \in {IF raw % n = 0 THEN 1 ELSE raw % n :
               raw \in RandomBytes(CeilDiv8(bitLength(n)))} :
        gcd(r, n) = 1 /\ r <= MaxBlind}

\* encrypt after the range check, with blinding r
encryptWith(pk, mm, r) ==
    LET gm == modPow(pk.g, mm, pk.n * pk.n)
        rn == modPow(r, pk.n, pk.n * pk.n)
    IN  MulMod(gm, rn, pk.n * pk.n)

\* mutant: the factors are added
homomorphicAdd_Sum(pk, a, b) == (a + b) % (pk.n * pk.n)

homomorphicAdd(pk, a, b) == MulMod(a, b, pk.n * pk.n)

\* mutant: the ciphertext is multiplied by k
homomorphicScalarMul_Times(pk, c, k) == MulMod(c, k, pk.n * pk.n)

homomorphicScalarMul(pk, c, k) == modPow(c, k, pk.n * pk.n)

\* mutant: mu is left out
decrypt_NoMu(pk, sk, c) == L(modPow(c, sk.lambda, pk.n * pk.n), pk.n) % pk.n

decrypt(pk, sk, c) ==
    LET n    == pk.n
        u    == modPow(c, sk.lambda, n * n)
        lOfU == L(u, n)
        m    == (lOfU * sk.mu) % n
    IN  IF m < 0 THEN m + n ELSE m

(***************************************************************************)
(* The worker's message handler, driven by one client session.             *)
(***************************************************************************)
OkResult(kind, v) ==
    [hasOk |-> TRUE, ok |-> TRUE, kind |-> kind, val |-> v, error |-> ""]
Failure(e) ==
    [hasOk |-> TRUE, ok |-> FALSE, kind |-> "none", val |-> 0, error |-> e]
\* postMessage(result): the keypair itself, with no ok field
RawKeypair(v) ==
    [hasOk |-> FALSE, ok |-> FALSE, kind |-> "keypair", val |-> v, error |-> ""]

InitSession ==
    /\ sphase = "start"
    /\ kp = NoKey
    /\ kbits = 0
    /\ m1 = 0 /\ c1 = 0
    /\ m2 = 0 /\ c2 = 0
    /\ hop = "none" /\ hk = 0 /\ hc = 0
    /\ dres = 0
    /\ req = "none"
    /\ reqArg = OtherV
    /\ rdrawn = 0
    /\ posted = <<>>
    /\ thrown = ""

\* the generate branch (wrapped = TRUE) and the no-op branch (wrapped = FALSE).
\* When no pair of candidates can leave the loop of generatePaillier the
\* handler never returns and nothing is posted.
Generate(op, wrapped) ==
    /\ sphase = "start"
    /\ \E bits \in 2 .. MaxBits :
          /\ reqArg' = NumberV(bits)
          /\ IF generatePaillier(bits) = {}
             THEN /\ sphase' = "hung"
                  /\ posted' = <<>>
                  /\ UNCHANGED <<kp, kbits>>
             ELSE \E out \in generatePaillier(bits) :
                    /\ kp' = out.key
                    /\ kbits' = IF out.ok THEN bits ELSE 0
                    /\ sphase' = IF out.ok THEN "keyed" ELSE "start"
                    /\ posted' = IF ~out.ok THEN <<Failure(out.err)>>
                                 ELSE IF wrapped
                                 THEN <<OkResult("keypair", out.key.n)>>
                                 ELSE <<RawKeypair(out.key.n)>>
    /\ req' = op
    /\ rdrawn' = 0
    /\ thrown' = ""
    /\ UNCHANGED <<m1, c1, m2, c2, hop, hk, hc, dres>>
    /\ UNCHANGED <<primeVars, libVars, convVars, invVars, callVars>>

\* mutant: the no-op branch answers like the generate branch
HandleNoOp_Wrapped == Generate("", TRUE)

\* if (!op) { ... postMessage(result); return; }
HandleNoOp == Generate("", FALSE)

\* case "generate"
HandleGenerate == Generate("generate", TRUE)

\* the plaintexts a request may carry: in range, just out of range, and a
\* value toBigInt rejects
firstPlaintexts(n) == {BigIntV(v) : v \in (-1) .. (n + 1)} \cup {OtherV}
secondPlaintexts(n) ==
    {BigIntV(v) : v \in {x \in 0 .. (n - 1) : x <= MaxMsg \/ x >= n - MaxMsg}}

\* case "encrypt": toBigInt(m), then encrypt(publicKey, m)
Encrypt(ms, first) ==
    /\ \E m \in ms :
          LET mm == toBigInt(m)
          IN  /\ reqArg' = m
              /\ IF ~mm.ok
                 THEN /\ posted' = <<Failure(mm.err)>>
                      /\ rdrawn' = 0
                      /\ UNCHANGED <<sphase, m1, c1, m2, c2>>
                 ELSE IF messageOutOfRange(kp.n, mm.val)
                 THEN /\ posted' = <<Failure("message out of range")>>
                      /\ rdrawn' = 0
                      /\ UNCHANGED <<sphase, m1, c1, m2, c2>>
                 ELSE \E r \in blindings(kp.n) :
                        LET c == encryptWith(kp, mm.val, r)
                        IN  /\ posted' = <<OkResult("bigint", c)>>
                            /\ rdrawn' = r
                            /\ IF first
                               THEN /\ m1' = mm.val /\ c1' = c
                                    /\ sphase' = "enc1"
                                    /\ UNCHANGED <<m2, c2>>
                               ELSE /\ m2' = mm.val /\ c2' = c
                                    /\ sphase' = "enc2"
                                    /\ UNCHANGED <<m1, c1>>
    /\ req' = "encrypt"
    /\ thrown' = ""
    /\ UNCHANGED <<kp, kbits, hop, hk, hc, dres>>
    /\ UNCHANGED <<primeVars, libVars, convVars, invVars, callVars>>

HandleEncrypt ==
    /\ sphase = "keyed"
    /\ Encrypt(firstPlaintexts(kp.n), TRUE)

HandleEncryptSecond ==
    /\ sphase = "enc1"
    /\ Encrypt(secondPlaintexts(kp.n), FALSE)

\* paillier.ts encrypt(publicKey, m) called directly with the same public key
LibEncrypt ==
    /\ sphase = "keyed"
    /\ \E m \in (-1) .. (kp.n + 1) :
          /\ reqArg' = BigIntV(m)
          /\ IF messageOutOfRange(kp.n, m)
             THEN /\ thrown' = "message out of range"
                  /\ rdrawn' = 0
                  /\ UNCHANGED <<sphase, m1, c1>>
             ELSE \E r \in libBlindings(kp.n) :
                    /\ thrown' = ""
                    /\ rdrawn' = r
                    /\ m1' = m
                    /\ c1' = encryptWith(kp, m, r)
                    /\ sphase' = "enc1"
    /\ req' = "lib.encrypt"
    /\ posted' = <<>>
    /\ UNCHANGED <<kp, kbits, m2, c2, hop, hk, hc, dres>>
    /\ UNCHANGED <<primeVars, libVars, convVars, invVars, callVars>>

\* case "add"
HandleAdd ==
    /\ sphase = "enc2"
    /\ LET r == homomorphicAdd(kp, c1, c2)
       IN  /\ hc' = r
           /\ posted' = <<OkResult("bigint", r)>>
    /\ hop' = "add"
    /\ sphase' = "homo"
    /\ req' = "add"
    /\ reqArg' = OtherV
    /\ rdrawn' = 0
    /\ thrown' = ""
    /\ UNCHANGED <<kp, kbits, m1, c1, m2, c2, hk, dres>>
    /\ UNCHANGED <<primeVars, libVars, convVars, invVars, callVars>>

scalars(n) == (0 .. MaxScalar) \cup {n, n + 1}

\* case "scalarMul"
HandleScalarMul ==
    /\ sphase = "enc1"
    /\ \E k \in scalars(kp.n) :
          LET r == homomorphicScalarMul(kp, c1, k)
          IN  /\ hk' = k
              /\ hc' = r
              /\ reqArg' = BigIntV(k)
              /\ posted' = <<OkResult("bigint", r)>>
    /\ hop' = "scalarMul"
    /\ sphase' = "homo"
    /\ req' = "scalarMul"
    /\ rdrawn' = 0
    /\ thrown' = ""
    /\ UNCHANGED <<kp, kbits, m1, c1, m2, c2, dres>>
    /\ UNCHANGED <<primeVars, libVars, convVars, invVars, callVars>>

\* case "decrypt", of the first ciphertext or of the homomorphic result
HandleDecrypt ==
    /\ sphase \in {"enc1", "homo"}
    /\ LET m == decrypt(kp, kp, IF sphase = "enc1" THEN c1 ELSE hc)
       IN  /\ dres' = m
           /\ posted' = <<OkResult("bigint", m)>>
    /\ sphase' = IF sphase = "enc1" THEN "dec1" ELSE "dech"
    /\ req' = "decrypt"
    /\ reqArg' = OtherV
    /\ rdrawn' = 0
    /\ thrown' = ""
    /\ UNCHANGED <<kp, kbits, m1, c1, m2, c2, hop, hk, hc>>
    /\ UNCHANGED <<primeVars, libVars, convVars, invVars, callVars>>

\* default: an op the switch does not know
HandleUnknown ==
    /\ sphase \in {"start", "keyed"}
    /\ req' = "bogus"
    /\ posted' = <<Failure("unknown op")>>
    /\ reqArg' = OtherV
    /\ rdrawn' = 0
    /\ thrown' = ""
    /\ UNCHANGED <<sphase, kp, kbits, m1, c1, m2, c2, hop, hk, hc, dres>>
    /\ UNCHANGED <<primeVars, libVars, convVars, invVars, callVars>>

NextSession ==
    \/ HandleNoOp
    \/ HandleGenerate
    \/ HandleEncrypt
    \/ HandleEncryptSecond
    \/ LibEncrypt
    \/ HandleAdd
    \/ HandleScalarMul
    \/ HandleDecrypt
    \/ HandleUnknown

(***************************************************************************)
(* paillier.ts: generateKeypair with a random generator g.                 *)
(***************************************************************************)
MaxLibBits == 6    \* generateKeypair is called with 2..MaxLibBits bits

\* the remainder of BigInt %, which takes the sign of the dividend
JsRem(a, b) == IF a >= 0 THEN a % b ELSE -((-a) % b)

\* egcd(a, b) = <<g, x, y>> with a*x + b*y = g
RECURSIVE egcd(_, _)
egcd(a, b) ==
    IF b = 0 THEN <<a, 1, 0>>
    ELSE LET t == egcd(b, JsRem(a, b))
         IN  <<t[1], t[3], t[2] - TruncDiv(a, b) * t[3]>>

libModInv(a, m) ==
    LET t == egcd(IF a < 0 THEN JsRem(JsRem(a, m) + m, m) ELSE a, m)
    IN  IF t[1] # 1 THEN Throw("modInv: inverse does not exist")
        ELSE Ok(JsRem(JsRem(t[2], m) + m, m))

\* the iterative gcd of paillier.ts
RECURSIVE libGcd(_, _)
libGcd(a, b) ==
    IF b # 0 THEN libGcd(b, JsRem(a, b)) ELSE IF a < 0 THEN -a ELSE a

libLcm(a, b) == TruncDiv(a, libGcd(a, b)) * b

\* isProbablePrime(n) can return true
isProbablePrimeMayAccept(n) ==
    \/ libShortCircuit(n) = "true"
    \/ /\ libShortCircuit(n) = "none"
       /\ \E a \in Witnesses("lib", n) : libMillerRabinRound(n, a)

\* p |= 1n
SetLowBit(p) == IF p % 2 = 0 THEN p + 1 ELSE p

\* every value paillier.ts generatePrime(bitLength) can return
libGeneratePrime(bitLen) ==
    {c \in {SetLowBit(libRandomBigInt(bitLen, raw)) :
               raw \in RandomBytes(CeilDiv8(bitLen))} :
        isProbablePrimeMayAccept(c)}

\* the pairs (p, q) that leave the first loop of generateKeypair(keyBits)
libPrimePairs(keyBits) ==
    {x \in libGeneratePrime((keyBits \div 2) + 1) \X libGeneratePrime(keyBits \div 2) :
        x[1] # x[2] /\ bitLength(x[1] * x[2]) = keyBits}

\* the g the second loop accepts: g in [2, n2 - 1] with gcd(L(g^lambda), n) = 1
libAcceptsG(n, lambda, g) ==
    libGcd(L(modPow(g, lambda, n * n), n), n) = 1

InitLib ==
    /\ lphase = "start"
    /\ lbits = 0
    /\ lkey = NoKey

\* generateKeypair(keyBits), from its call to its return
GenerateKeypair ==
    /\ lphase = "start"
    /\ \E keyBits \in 2 .. MaxLibBits :
       \E pq \in libPrimePairs(keyBits) :
          LET p == pq[1]
              q == pq[2]
              n == p * q
              n2 == n * n
              lambda == libLcm(p - 1, q - 1)
          IN  \E g \in 2 .. (n2 - 1) :
                 /\ libAcceptsG(n, lambda, g)
                 /\ LET lVal == L(modPow(g, lambda, n2), n)
                        mu == libModInv(JsRem(lVal, n), n)
                    IN  /\ mu.ok
                        /\ lkey' = [n |-> n, g |-> g, n2 |-> n2, lambda |-> lambda,
                                    mu |-> mu.val, p |-> p, q |-> q]
                 /\ lbits' = keyBits
                 /\ lphase' = "keyed"
    /\ UNCHANGED <<primeVars, sessVars, convVars, invVars, callVars>>

NextLib == GenerateKeypair

(***************************************************************************)
(* Key serialization (usePaillierKeygen.ts and paillier.ts) and toBigInt.  *)
(* An optional field is a sequence of at most one element.                 *)
(***************************************************************************)
MaxSerial == 40    \* n, lambda and mu of the keys serialized are 1..MaxSerial
MaxStrLen == 3     \* strings given to toBigInt have at most MaxStrLen characters

\* usePaillierKeygen.ts serializePublicKey: n2 only when pk.n2 is truthy
serializePublicKey(pk) ==
    [n  |-> toString16(pk.n),
     g  |-> toString16(pk.g),
     n2 |-> IF pk.n2 # <<>> /\ pk.n2[1] # 0 THEN <<toString16(pk.n2[1])>> ELSE <<>>]

\* paillier.ts serializePublicKey
libSerializePublicKey(pk) ==
    [n  |-> toString16(pk.n),
     g  |-> toString16(pk.g),
     n2 |-> <<toString16(pk.n2[1])>>]

\* toBI / the inlined conditional of paillier.ts
toBI(str) ==
    IF startsWith0x(str) THEN StringToBigInt(str)
    ELSE StringToBigInt(<<"0", "x">> \o str)

\* the three fields, or the first error thrown
deserializePublicKey(data) ==
    LET n  == toBI(data.n)
        g  == toBI(data.g)
        n2 == IF data.n2 # <<>> /\ data.n2[1] # <<>> THEN toBI(data.n2[1]) ELSE Ok(0)
    IN  IF ~n.ok THEN [ok |-> FALSE, err |-> n.err, val |-> <<>>]
        ELSE IF ~g.ok THEN [ok |-> FALSE, err |-> g.err, val |-> <<>>]
        ELSE IF ~n2.ok THEN [ok |-> FALSE, err |-> n2.err, val |-> <<>>]
        ELSE [ok |-> TRUE, err |-> "",
              val |-> [n |-> n.val, g |-> g.val,
                       n2 |-> IF data.n2 # <<>> /\ data.n2[1] # <<>>
                              THEN <<n2.val>> ELSE <<>>]]

libDeserializePublicKey(data) ==
    LET n  == toBI(data.n)
        g  == toBI(data.g)
        n2 == toBI(data.n2[1])
    IN  IF ~n.ok THEN [ok |-> FALSE, err |-> n.err, val |-> <<>>]
        ELSE IF ~g.ok THEN [ok |-> FALSE, err |-> g.err, val |-> <<>>]
        ELSE IF ~n2.ok THEN [ok |-> FALSE, err |-> n2.err, val |-> <<>>]
        ELSE [ok |-> TRUE, err |-> "",
              val |-> [n |-> n.val, g |-> g.val, n2 |-> <<n2.val>>]]

\* both files: only lambda and mu are written
serializePrivateKey(sk) ==
    [lambda |-> toString16(sk.lambda), mu |-> toString16(sk.mu)]

\* usePaillierKeygen.ts deserializePrivateKey
deserializePrivateKey(data) ==
    LET lambda == toBI(data.lambda)
        mu     == toBI(data.mu)
    IN  IF ~lambda.ok THEN [ok |-> FALSE, err |-> lambda.err, val |-> <<>>]
        ELSE IF ~mu.ok THEN [ok |-> FALSE, err |-> mu.err, val |-> <<>>]
        ELSE [ok |-> TRUE, err |-> "",
              val |-> [lambda |-> lambda.val, mu |-> mu.val]]

\* paillier.ts deserializePrivateKey: BigInt(data.lambda), BigInt(data.mu)
libDeserializePrivateKey(data) ==
    LET lambda == StringToBigInt(data.lambda)
        mu     == StringToBigInt(data.mu)
    IN  IF ~lambda.ok THEN [ok |-> FALSE, err |-> lambda.err, val |-> <<>>]
        ELSE IF ~mu.ok THEN [ok |-> FALSE, err |-> mu.err, val |-> <<>>]
        ELSE [ok |-> TRUE, err |-> "",
              val |-> [lambda |-> lambda.val, mu |-> mu.val]]

\* the keys serialized: g = n + 1 and n2 = n * n as generatePaillier builds
\* them; the hook's n2 is optional
publicKeys(variant) ==
    {[n |-> n, g |-> n + 1, n2 |-> <<n * n>>] : n \in 1 .. MaxSerial}
    \cup (IF variant = "hook"
          THEN {[n |-> n, g |-> n + 1, n2 |-> <<>>] : n \in 1 .. MaxSerial}
          ELSE {})

privateKeys ==
    {[lambda |-> l, mu |-> m, p |-> 5, q |-> 7] :
        l \in 1 .. MaxSerial, m \in 1 .. MaxSerial}

\* the strings given to toBigInt
ConvAlphabet == {"0", "1", "9", "a", "b", "x", "-"}
ConvStrings == UNION {[1 .. k -> ConvAlphabet] : k \in 0 .. MaxStrLen}
ConvInputs ==
    {StringV(str) : str \in ConvStrings}
    \cup {BigIntV(v) : v \in (-2) .. 20} \cup {NumberV(v) : v \in (-2) .. 20}
    \cup {FractionV, OtherV}

InitConv ==
    /\ cop = "none"
    /\ cvariant = "hook"
    /\ cin = OtherV
    /\ cser = <<>>
    /\ cout = Ok(0)

CallToBigInt ==
    /\ cop = "none"
    /\ \E x \in ConvInputs :
          /\ cin' = x
          /\ cout' = toBigInt(x)
    /\ cop' = "toBigInt"
    /\ UNCHANGED <<cvariant, cser>>
    /\ UNCHANGED <<primeVars, sessVars, libVars, invVars, callVars>>

SerializePublicKey ==
    /\ cop = "none"
    /\ \E variant \in {"hook", "lib"} :
       \E pk \in publicKeys(variant) :
          /\ cvariant' = variant
          /\ cin' = pk
          /\ cser' = IF variant = "hook" THEN serializePublicKey(pk)
                     ELSE libSerializePublicKey(pk)
    /\ cop' = "serPub"
    /\ UNCHANGED cout
    /\ UNCHANGED <<primeVars, sessVars, libVars, invVars, callVars>>

DeserializePublicKey ==
    /\ cop = "serPub"
    /\ cout' = IF cvariant = "hook" THEN deserializePublicKey(cser)
               ELSE libDeserializePublicKey(cser)
    /\ cop' = "deserPub"
    /\ UNCHANGED <<cvariant, cin, cser>>
    /\ UNCHANGED <<primeVars, sessVars, libVars, invVars, callVars>>

\* the worker reads a serialized public key: toBigInt(publicKey.n)
ToBigIntOfSerialized ==
    /\ cop = "serPub"
    /\ cout' = toBigInt(StringV(cser.n))
    /\ cop' = "toBigIntSer"
    /\ UNCHANGED <<cvariant, cin, cser>>
    /\ UNCHANGED <<primeVars, sessVars, libVars, invVars, callVars>>

SerializePrivateKey ==
    /\ cop = "none"
    /\ \E variant \in {"hook", "lib"} :
       \E sk \in privateKeys :
          /\ cvariant' = variant
          /\ cin' = sk
          /\ cser' = serializePrivateKey(sk)
    /\ cop' = "serPriv"
    /\ UNCHANGED cout
    /\ UNCHANGED <<primeVars, sessVars, libVars, invVars, callVars>>

DeserializePrivateKey ==
    /\ cop = "serPriv"
    /\ cout' = IF cvariant = "hook" THEN deserializePrivateKey(cser)
               ELSE libDeserializePrivateKey(cser)
    /\ cop' = "deserPriv"
    /\ UNCHANGED <<cvariant, cin, cser>>
    /\ UNCHANGED <<primeVars, sessVars, libVars, invVars, callVars>>

NextConv ==
    \/ CallToBigInt
    \/ SerializePublicKey
    \/ DeserializePublicKey
    \/ ToBigIntOfSerialized
    \/ SerializePrivateKey
    \/ DeserializePrivateKey

(***************************************************************************)
(* Direct calls of the two modInv functions.                               *)
(***************************************************************************)
MaxInvArg == 14
MaxInvMod == 12

InitInv ==
    /\ iop = "none" /\ ivariant = "worker"
    /\ ia = 0 /\ im = 0
    /\ iout = Ok(0)

\* paillier-worker.ts modInv(a, m)
CallModInv ==
    /\ iop = "none"
    /\ \E a \in 0 .. MaxInvArg, m \in 2 .. MaxInvMod :
          /\ ia' = a /\ im' = m
          /\ iout' = modInv(a, m)
    /\ iop' = "modInv" /\ ivariant' = "worker"
    /\ UNCHANGED <<primeVars, sessVars, libVars, convVars, callVars>>

\* paillier.ts modInv(a, m)
CallLibModInv ==
    /\ iop = "none"
    /\ \E a \in 0 .. MaxInvArg, m \in 2 .. MaxInvMod :
          /\ ia' = a /\ im' = m
          /\ iout' = libModInv(a, m)
    /\ iop' = "modInv" /\ ivariant' = "lib"
    /\ UNCHANGED <<primeVars, sessVars, libVars, convVars, callVars>>

NextInv == CallModInv \/ CallLibModInv

(***************************************************************************)
(* usePaillierKeygen.ts: concurrent calls, each with a worker of its own.  *)
(* A worker is known by its position in workers; the onmessage closure set *)
(* on it is the call recorded in its handler field.  The by and from       *)
(* fields only record which call a request or a response came from.        *)
(***************************************************************************)
MaxCalls == 2

Calls == 1 .. MaxCalls

NoMsg == [hasOk |-> FALSE, ok |-> FALSE, kind |-> "none", val |-> 0, error |-> ""]
NoPayload == [op |-> "none", bits |-> 0, n |-> 0, g |-> 0, m |-> 0]
NoCall ==
    [api |-> "none", worker |-> 0, promise |-> "none", with |-> "none", data |-> NoMsg,
     from |-> 0, settles |-> 0]

\* worker.postMessage({ bits })
BitsPayload(bits) == [op |-> "", bits |-> bits, n |-> 0, g |-> 0, m |-> 0]
\* worker.postMessage({ op: "encrypt", publicKey, m })
EncryptPayload(n, g, m) == [op |-> "encrypt", bits |-> 0, n |-> n, g |-> g, m |-> m]

\* the payloads encryptPaillier is called with: the key n = 15, g = 16 and
\* plaintexts in and out of range
EncryptPayloads == {EncryptPayload(15, 16, m) : m \in (0 .. MaxMsg) \cup {15}}

InitCalls ==
    /\ calls = [c \in Calls |-> NoCall]
    /\ workers = <<>>
    /\ channel = {}

\* new Worker.default(); worker.onmessage = ...; worker.postMessage(payload)
StartCall(c, api, payload) ==
    /\ calls[c].api = "none"
    /\ workers' = Append(workers,
                         [handler |-> c, request |-> payload, by |-> c,
                          handled |-> FALSE, state |-> "running"])
    /\ calls' = [calls EXCEPT ![c] =
                    [NoCall EXCEPT !.api = api, !.worker = Len(workers) + 1,
                                   !.promise = "pending"]]
    /\ UNCHANGED channel
    /\ UNCHANGED <<primeVars, sessVars, libVars, convVars, invVars>>

\* generatePaillierKey(bits)
CallGeneratePaillierKey ==
    \E c \in Calls, bits \in 2 .. MaxBits :
        StartCall(c, "generatePaillierKey", BitsPayload(bits))

\* encryptPaillier(publicKey, m), through callPaillierWorker(payload)
CallPaillierWorker ==
    \E c \in Calls, payload \in EncryptPayloads :
        StartCall(c, "callPaillierWorker", payload)

\* generatePaillier(bits) for each size a call can ask for, computed once
generatePaillierOutcomes == [bits \in 2 .. MaxBits |-> generatePaillier(bits)]

\* the messages self.onmessage can post for a request; none while
\* generatePaillier does not return
workerResponses(payload) ==
    IF payload.op = ""
    THEN {IF out.ok THEN RawKeypair(out.key.n) ELSE Failure(out.err) :
             out \in generatePaillierOutcomes[payload.bits]}
    ELSE IF messageOutOfRange(payload.n, payload.m)
    THEN {Failure("message out of range")}
    ELSE {OkResult("bigint", encryptWith([n |-> payload.n, g |-> payload.g], payload.m, r)) :
             r \in blindings(payload.n)}

\* a worker runs self.onmessage on the request it was sent
WorkerOnMessage ==
    \E w \in 1 .. Len(workers) :
        /\ workers[w].state = "running"
        /\ ~workers[w].handled
        /\ \E resp \in workerResponses(workers[w].request) :
              channel' = channel \cup {[worker |-> w, from |-> workers[w].by, data |-> resp]}
        /\ workers' = [workers EXCEPT ![w].handled = TRUE]
        /\ UNCHANGED calls
        /\ UNCHANGED <<primeVars, sessVars, libVars, convVars, invVars>>

\* resolve / reject of a promise: only the first one settles it
Settle(call, how, with, msg) ==
    IF call.promise = "pending"
    THEN [call EXCEPT !.promise = how, !.with = with, !.data = msg.data,
                      !.from = msg.from, !.settles = 1]
    ELSE [call EXCEPT !.settles = call.settles + 1]

\* generatePaillierKey: worker.onmessage = (msg) => { resolve(msg.data);
\* worker.terminate(); }
GenerateKeyOnMessage ==
    \E msg \in channel :
        LET c == workers[msg.worker].handler
        IN  /\ workers[msg.worker].state = "running"
            /\ calls[c].api = "generatePaillierKey"
            /\ calls' = [calls EXCEPT ![c] = Settle(calls[c], "resolved", "raw", msg)]
            /\ workers' = [workers EXCEPT ![msg.worker].state = "terminated"]
            /\ channel' = channel \ {msg}
            /\ UNCHANGED <<primeVars, sessVars, libVars, convVars, invVars>>

\* callPaillierWorker: the onmessage closure
CallWorkerOnMessage ==
    \E msg \in channel :
        LET c == workers[msg.worker].handler
            data == msg.data
        IN  /\ workers[msg.worker].state = "running"
            /\ calls[c].api = "callPaillierWorker"
            /\ workers' = [workers EXCEPT ![msg.worker].state = "terminated"]
            /\ calls' = [calls EXCEPT ![c] =
                  IF data.hasOk
                  THEN IF data.ok THEN Settle(calls[c], "resolved", "result", msg)
                       ELSE Settle(calls[c], "rejected", "error", msg)
                  ELSE Settle(calls[c], "resolved", "raw", msg)]
            /\ channel' = channel \ {msg}
            /\ UNCHANGED <<primeVars, sessVars, libVars, convVars, invVars>>

NextCalls ==
    \/ CallGeneratePaillierKey
    \/ CallPaillierWorker
    \/ WorkerOnMessage
    \/ GenerateKeyOnMessage
    \/ CallWorkerOnMessage

(***************************************************************************)
(* Specifications.                                                         *)
(***************************************************************************)
Init == InitPrime /\ InitSession /\ InitLib /\ InitConv /\ InitInv /\ InitCalls

\* the worker serving one client session
Spec == Init /\ [][NextSession]_vars

\* isProbPrime / isProbablePrime and generatePrime, round by round
SpecPrime == Init /\ [][NextPrime]_vars

\* paillier.ts generateKeypair
SpecLib == Init /\ [][NextLib]_vars

\* toBigInt and the serialization helpers
SpecConv == Init /\ [][NextConv]_vars

\* the modular inverses
SpecInv == Init /\ [][NextInv]_vars

\* concurrent calls of the hook
SpecCalls == Init /\ [][NextCalls]_vars

(***************************************************************************)
(* C5.  Exact bit length: randomBigInt(b) returns a value of bit length    *)
(* exactly b for every b >= 2 and every outcome of the random bytes, and   *)
(* so generatePrime(b) only returns values of bit length exactly b.        *)
(***************************************************************************)
C5_ExactBitLength ==
    /\ pbits > 0 => bitLength(pdraw) = pbits
    /\ GeneratePrimeReturned => bitLength(pn) = pbits

\* generatePrime(2) returned a value drawn from the byte 0xFF
C5_Reached == GeneratePrimeReturned /\ pbits = 2 /\ pdraw > 3

(***************************************************************************)
(* C10.  Primality correctness as claimed: isProbPrime returns false for   *)
(* n < 2, true for 2 and 3, false for even n, true for the known primes    *)
(* and false for the known composites (561 among them), every witness      *)
(* being drawn from [2, n-2].                                              *)
(***************************************************************************)
C10_KnownAnswers ==
    /\ pwitOk
    /\ IsProbPrimeReturned =>
          /\ pn < 2 => pres = "false"
          /\ pn \in {2, 3} => pres = "true"
          /\ (pn > 2 /\ pn % 2 = 0) => pres = "false"
          /\ pn \in KnownPrimes => pres = "true"
          /\ pn \in KnownComposites => pres = "false"

(***************************************************************************)
(* C10 as amended: the short circuits are as claimed, every witness is     *)
(* drawn from [2, n-2], every prime is accepted whatever the witnesses,    *)
(* and a composite is accepted only after K rounds whose witnesses all     *)
(* satisfy a^(n-1) = 1 (mod n); 4, 9 and 15 are always rejected.           *)
(***************************************************************************)
C10_ProbablePrime ==
    /\ pwitOk
    /\ IsProbPrimeReturned =>
          /\ pn < 2 => pres = "false"
          /\ pn \in {2, 3} => pres = "true"
          /\ (pn > 2 /\ pn % 2 = 0) => pres = "false"
          /\ IsPrime(pn) => pres = "true"
          /\ pn \in {4, 9, 15} => pres = "false"
          /\ (pres = "true" /\ ~IsPrime(pn)) => (pround = K /\ pliars)

\* 7919 was accepted after K rounds
C10_Witness ==
    IsProbPrimeReturned /\ pbits = 0 /\ pn = 7919 /\ pres = "true" /\ pround = K


(***************************************************************************)
(* Shorthands of the session properties.                                   *)
(***************************************************************************)
PrimeKey == IsPrime(kp.p) /\ IsPrime(kp.q)
WorkerOps == {"", "generate", "encrypt", "decrypt", "add", "scalarMul", "bogus"}

(***************************************************************************)
(* C1.  Round trip as claimed: for every keypair generatePaillier returns, *)
(* every m in [0, n) and every blinding value, decrypt(encrypt(m)) = m.    *)
(***************************************************************************)
C1_RoundTripAnyKey == sphase = "dec1" => dres = m1

(***************************************************************************)
(* C1 as amended: the round trip holds for every returned keypair whose p  *)
(* and q are prime (isProbPrime can accept a composite).                   *)
(***************************************************************************)
C1_RoundTrip == (sphase = "dec1" /\ PrimeKey) => dres = m1

\* the largest plaintext was encrypted and decrypted under a prime keypair
C1_Witness == sphase = "dec1" /\ PrimeKey /\ m1 = kp.n - 1 /\ dres = m1

(***************************************************************************)
(* C2.  Homomorphic addition as claimed: for every generated keypair the   *)
(* product of two fresh ciphertexts decrypts to (m1 + m2) mod n.           *)
(***************************************************************************)
C2_AddAnyKey ==
    (sphase = "dech" /\ hop = "add") => dres = (m1 + m2) % kp.n

(***************************************************************************)
(* C2 as amended: the same, for keypairs whose p and q are prime.          *)
(***************************************************************************)
C2_Add ==
    (sphase = "dech" /\ hop = "add" /\ PrimeKey) => dres = (m1 + m2) % kp.n

\* a sum that wraps around n was decrypted
C2_Witness ==
    /\ sphase = "dech" /\ hop = "add" /\ PrimeKey
    /\ m1 + m2 >= kp.n /\ m2 < kp.n - 1 /\ dres = m1 + m2 - kp.n

(***************************************************************************)
(* C3.  Scalar multiplication as claimed: for every generated keypair and  *)
(* every k >= 0, c^k decrypts to (k * m) mod n.                            *)
(***************************************************************************)
C3_ScalarMulAnyKey ==
    (sphase = "dech" /\ hop = "scalarMul") => dres = (hk * m1) % kp.n

(***************************************************************************)
(* C3 as amended: the same, for keypairs whose p and q are prime.          *)
(***************************************************************************)
C3_ScalarMul ==
    (sphase = "dech" /\ hop = "scalarMul" /\ PrimeKey) => dres = (hk * m1) % kp.n

\* a scalar above n was applied to a plaintext above 1
C3_Witness ==
    /\ sphase = "dech" /\ hop = "scalarMul" /\ PrimeKey
    /\ hk = kp.n + 1 /\ m1 > 1 /\ dres = m1

(***************************************************************************)
(* C4.  Range rejection: encrypt fails with "message out of range" exactly *)
(* when m < 0 or m >= n, and then draws no blinding value and produces no  *)
(* ciphertext.                                                             *)
(***************************************************************************)
C4_RangeRejection ==
    LET out == reqArg.v < 0 \/ reqArg.v >= kp.n
    IN  /\ (req = "encrypt" /\ reqArg.t = "bigint") =>
              /\ Len(posted) = 1
              /\ out <=> posted[1] = Failure("message out of range")
              /\ out => (rdrawn = 0 /\ sphase = "keyed")
              /\ ~out => (posted[1].ok /\ rdrawn > 0)
        /\ req = "lib.encrypt" =>
              /\ out <=> thrown = "message out of range"
              /\ out => (rdrawn = 0 /\ sphase = "keyed")
              /\ ~out => rdrawn > 0

\* encrypt(publicKey, n) was rejected by the worker
C4_Witness ==
    /\ req = "encrypt" /\ reqArg = BigIntV(kp.n) /\ kp.n > 0
    /\ posted = <<Failure("message out of range")>>

(***************************************************************************)
(* C8.  Worker response contract as claimed: every request, the no-op one  *)
(* included, gets exactly one response, {ok: true, result} on success and  *)
(* {ok: false, error} on failure; an unknown op gets "unknown op".  Read   *)
(* here of the requests whose handler has returned.                        *)
(***************************************************************************)
C8_OkFormAlways ==
    (req \in WorkerOps /\ sphase # "hung") =>
        /\ Len(posted) = 1
        /\ posted[1].hasOk
        /\ posted[1].ok => posted[1].kind # "none"
        /\ ~posted[1].ok => posted[1].error # ""
        /\ req = "bogus" => posted[1] = Failure("unknown op")

(***************************************************************************)
(* C8 as amended: whenever the handler returns it has posted exactly one   *)
(* response.  A request with an op gets {ok: true, result} on success and  *)
(* {ok: false, error} on failure, "unknown op" for an unknown op.  A       *)
(* request without op gets the bare keypair, with no ok field, on success  *)
(* and {ok: false, error} on failure.  While generatePaillier does not     *)
(* return nothing is posted.                                               *)
(***************************************************************************)
C8_ResponseContract ==
    req \in WorkerOps =>
        IF sphase = "hung" THEN posted = <<>>
        ELSE /\ Len(posted) = 1
             /\ req # "" =>
                   /\ posted[1].hasOk
                   /\ posted[1].ok => posted[1].kind # "none"
                   /\ ~posted[1].ok => posted[1].error # ""
             /\ req = "" =>
                   \/ posted[1] = RawKeypair(kp.n) /\ kp # NoKey
                   \/ posted[1].hasOk /\ ~posted[1].ok /\ posted[1].error # ""
             /\ req = "bogus" => posted[1] = Failure("unknown op")

\* a request without op was answered with the bare keypair
C8_Witness == req = "" /\ Len(posted) = 1 /\ ~posted[1].hasOk /\ kp # NoKey


(***************************************************************************)
(* C6.  Keypair well-formedness: whenever key generation returns for the   *)
(* requested size bits, n = p*q with p # q, the bit length of n is bits,   *)
(* n2 = n*n, lambda = lcm(p-1, q-1), and mu is in [0, n) with              *)
(* mu * L(g^lambda mod n2) = 1 (mod n), where L(u) = (u-1)/n divides       *)
(* exactly.  Stated of both generators: the worker's generatePaillier      *)
(* (kp) and paillier.ts generateKeypair (lkey).                            *)
(***************************************************************************)
WellFormedKey(key, bits) ==
    LET u == modPow(key.g, key.lambda, key.n2)
    IN  /\ key.n = key.p * key.q
        /\ key.p # key.q
        /\ bitLength(key.n) = bits
        /\ key.n2 = key.n * key.n
        /\ key.lambda * gcd(key.p - 1, key.q - 1) = (key.p - 1) * (key.q - 1)
        /\ key.mu \in 0 .. (key.n - 1)
        /\ (u - 1) % key.n = 0
        /\ (key.mu * ((u - 1) \div key.n)) % key.n = 1

C6_WellFormed ==
    /\ kp # NoKey => WellFormedKey(kp, kbits)
    /\ lphase = "keyed" => WellFormedKey(lkey, lbits)

\* the worker's half of C6, which holds
C6_WorkerWellFormed == kp # NoKey => WellFormedKey(kp, kbits)

(***************************************************************************)
(* C7.  Serialization round trip: deserializePublicKey(serializePublicKey  *)
(* (pk)) equals pk on n, g and n2, deserializePrivateKey(                  *)
(* serializePrivateKey(sk)) equals sk on lambda and mu, the serialized     *)
(* strings are hex digits without a 0x prefix, and p and q are not         *)
(* written.  Stated of both files.                                         *)
(***************************************************************************)
PlainHex(str) == str # <<>> /\ AllDigits(str, 16)

RoundTripHolds ==
    /\ cop \in {"serPub", "deserPub", "toBigIntSer"} =>
          /\ PlainHex(cser.n) /\ PlainHex(cser.g)
          /\ cser.n2 # <<>> => PlainHex(cser.n2[1])
    /\ cop = "deserPub" =>
          /\ cout.ok
          /\ cout.val.n = cin.n /\ cout.val.g = cin.g /\ cout.val.n2 = cin.n2
    /\ cop \in {"serPriv", "deserPriv"} =>
          /\ DOMAIN cser = {"lambda", "mu"}
          /\ PlainHex(cser.lambda) /\ PlainHex(cser.mu)
    /\ cop = "deserPriv" =>
          /\ cout.ok
          /\ cout.val.lambda = cin.lambda /\ cout.val.mu = cin.mu

C7_SerializationRoundTrip == RoundTripHolds

\* the half of C7 about usePaillierKeygen.ts, which holds
C7_HookRoundTrip == cvariant = "hook" => RoundTripHolds

(***************************************************************************)
(* C9.  Integer-like normalization as claimed: toBigInt maps a native      *)
(* integer to itself, a decimal numeric string to its decimal value, a     *)
(* hexadecimal string, with or without 0x prefix, such as the strings      *)
(* serializePublicKey produces, to its hexadecimal value, and fails for    *)
(* any other value.                                                        *)
(***************************************************************************)
Unsigned(str) == IF str # <<>> /\ str[1] = "-" THEN Rest(str, 1) ELSE str
IsDecimalString(str) == Unsigned(str) # <<>> /\ AllDigits(Unsigned(str), 10)
DecimalValue(str) ==
    IF str[1] = "-" THEN -DigitsValue(Unsigned(str), 10) ELSE DigitsValue(str, 10)
Unprefixed(str) == IF startsWith0x(str) THEN Rest(str, 2) ELSE str
IsHexString(str) == PlainHex(Unprefixed(str))
HexValue(str) == DigitsValue(Unprefixed(str), 16)
IsBinaryLiteral(str) ==
    Len(str) > 2 /\ str[1] = "0" /\ str[2] = "b" /\ AllDigits(Rest(str, 2), 2)

C9_HexAlwaysHex ==
    /\ cop = "toBigInt" =>
          /\ cin.t \in {"bigint", "number"} => cout = Ok(cin.v)
          /\ (cin.t = "string" /\ IsDecimalString(cin.s)) =>
                cout = Ok(DecimalValue(cin.s))
          /\ (cin.t = "string" /\ IsHexString(cin.s)) => cout = Ok(HexValue(cin.s))
          /\ (cin.t = "string" /\ ~IsDecimalString(cin.s) /\ ~IsHexString(cin.s)) =>
                ~cout.ok
          /\ cin.t \in {"fraction", "other"} => ~cout.ok
    /\ cop = "toBigIntSer" => cout = Ok(cin.n)

(***************************************************************************)
(* C9 as amended: toBigInt maps a native integer to itself and a string    *)
(* that BigInt() accepts to the value BigInt() gives it: a decimal         *)
(* numeral to its decimal value, a 0x literal to its hexadecimal value,    *)
(* the empty string to 0 and a 0b literal to its binary value.  Only a     *)
(* string BigInt() rejects is read as hexadecimal, so an unprefixed hex    *)
(* string maps to its hexadecimal value unless it consists of decimal      *)
(* digits only (then it is read as decimal, as is the serialized n = 16,   *)
(* "10") or is a 0b literal.  Every other value fails.                     *)
(***************************************************************************)
C9_Normalization ==
    /\ cop = "toBigInt" =>
          /\ cin.t \in {"bigint", "number"} => cout = Ok(cin.v)
          /\ cin.t = "string" =>
                IF cin.s = <<>> THEN cout = Ok(0)
                ELSE IF IsDecimalString(cin.s) THEN cout = Ok(DecimalValue(cin.s))
                ELSE IF IsBinaryLiteral(cin.s)
                     THEN cout = Ok(DigitsValue(Rest(cin.s, 2), 2))
                ELSE IF IsHexString(cin.s) THEN cout = Ok(HexValue(cin.s))
                ELSE ~cout.ok
          /\ cin.t = "fraction" => ~cout.ok
          /\ cin.t = "other" => cout = Throw("Cannot convert to BigInt")
    /\ cop = "toBigIntSer" =>
          cout = Ok(IF AllDigits(cser.n, 10) THEN DigitsValue(cser.n, 10) ELSE cin.n)

\* an unprefixed hexadecimal string from serializePublicKey was read back
C9_Witness == cop = "toBigIntSer" /\ cin.n > 9 /\ cout = Ok(cin.n)

(***************************************************************************)
(* C11.  Modular inverse: for every a >= 0 and m > 1, modInv(a, m) returns *)
(* the unique x in [0, m) with a*x = 1 (mod m) when gcd(a, m) = 1, and     *)
(* fails, never returning a value, when gcd(a, m) # 1, a = 0 included.     *)
(* Stated of both modInv functions; any thrown error counts as failing.    *)
(***************************************************************************)
InverseOrFailure ==
    iop = "modInv" =>
        IF gcd(ia, im) = 1
        THEN /\ iout.ok
             /\ iout.val \in 0 .. (im - 1)
             /\ (ia * iout.val) % im = 1
        ELSE ~iout.ok

C11_ModInv == InverseOrFailure

\* the half of C11 about paillier.ts, which holds, with its error message
C11_LibModInv ==
    (iop = "modInv" /\ ivariant = "lib") =>
        /\ InverseOrFailure
        /\ ~iout.ok => iout.err = "modInv: inverse does not exist"

\* what the worker's modInv does instead when gcd(a, m) # 1: 1 for a = 0,
\* RangeError("Division by zero") otherwise
C11_WorkerModInv ==
    (iop = "modInv" /\ ivariant = "worker") =>
        IF gcd(ia, im) = 1
        THEN /\ iout.ok
             /\ iout.val \in 0 .. (im - 1)
             /\ (ia * iout.val) % im = 1
        ELSE IF ia = 0 THEN iout = Ok(1)
        ELSE iout = Throw("Division by zero")

(***************************************************************************)
(* C12.  Per-request isolation: with any number of calls of                *)
(* callPaillierWorker / generatePaillierKey outstanding at once and any    *)
(* interleaving of the responses, each call has a worker of its own, its   *)
(* promise settles at most once and only with the response to its own      *)
(* request, resolved with the result when ok is true and rejected with the *)
(* error when ok is false, and its worker is terminated after that         *)
(* response and not before.                                                *)
(***************************************************************************)
Settled(c) == calls[c].promise \in {"resolved", "rejected"}

OwnWorker(c) ==
    /\ calls[c].worker \in 1 .. Len(workers)
    /\ workers[calls[c].worker].handler = c
    /\ \A d \in Calls \ {c} : calls[d].worker # calls[c].worker

OwnResponseOnce(c) ==
    /\ calls[c].settles <= 1
    /\ Settled(c) => /\ calls[c].from = c
                     /\ workers[calls[c].worker].state = "terminated"
    /\ workers[calls[c].worker].state = "terminated" => Settled(c)

C12_PerRequestIsolation ==
    \A c \in Calls :
        calls[c].api # "none" =>
            /\ OwnWorker(c)
            /\ OwnResponseOnce(c)
            /\ (Settled(c) /\ calls[c].data.hasOk /\ calls[c].data.ok) =>
                  calls[c].promise = "resolved" /\ calls[c].with = "result"
            /\ (Settled(c) /\ calls[c].data.hasOk /\ ~calls[c].data.ok) =>
                  calls[c].promise = "rejected" /\ calls[c].with = "error"

\* what holds of the two functions: isolation of both, the ok / error
\* contract of callPaillierWorker only; generatePaillierKey resolves with
\* whatever its worker posted
C12_IsolationOnly ==
    \A c \in Calls :
        calls[c].api # "none" =>
            /\ OwnWorker(c)
            /\ OwnResponseOnce(c)
            /\ (Settled(c) /\ calls[c].api = "generatePaillierKey") =>
                  calls[c].promise = "resolved" /\ calls[c].with = "raw"
            /\ (Settled(c) /\ calls[c].api = "callPaillierWorker") =>
                  /\ calls[c].data.hasOk
                  /\ calls[c].promise = (IF calls[c].data.ok THEN "resolved" ELSE "rejected")
                  /\ calls[c].with = (IF calls[c].data.ok THEN "result" ELSE "error")

\* two responses were in flight at once and the later call was answered first
C12_Interleaved ==
    \E c, d \in Calls :
        /\ calls[c].api # "none" /\ calls[d].api # "none"
        /\ calls[c].worker < calls[d].worker
        /\ Settled(d) /\ ~Settled(c)
        /\ \E msg \in channel : msg.worker = calls[c].worker

=============================================================================
